---- MODULE Spec2Model ----
(***************************************************************************)
(* A model of blogicum/blog/views.py: the views over Post, Category and    *)
(* Comment, their visibility filters, their ownership checks and their     *)
(* pagination.  The database rows are the state; one action per view.      *)
(* A view that reads answers a GET; a view that writes answers the POST of  *)
(* a valid form.  Each action leaves its answer in resp.                    *)
(***************************************************************************)
EXTENDS Integers, Sequences, FiniteSets, TLC

\* ---------------------------------------------------------------- bounds
MaxTime == 2        \* the clock runs over 0..MaxTime
TicksPerDay == 2    \* clock ticks in one calendar day
MaxPosts == 1       \* primary keys of posts are 1..MaxPosts
MaxComments == 1    \* primary keys of comments are 1..MaxComments
MaxCount == 12      \* most posts in the database of the pagination runs
MaxPage == 3        \* largest ?page= number requested

\* ------------------------------------------------------ program constants
PAGINATOR_VALUE == 10
paginate_by == 10

\* ------------------------------------------------------------- identities
\* the rows of User, by primary key; a user's username is a field of the row
Users == {"u1", "u2"}
Anonymous == "AnonymousUser"
Viewers == Users \cup {Anonymous}
NoUser == "None"
\* the usernames a request can carry: in a URL, or posted to edit_profile
Usernames == {"alice", "bob", "robert"}

Slugs == {"news", "draft"}
UnknownSlug == "nosuch"
SlugInputs == Slugs \cup {UnknownSlug}
NoCategory == "None"

Times == 0..MaxTime
PostPks == 1..MaxPosts
CommentPks == 1..MaxComments
\* pk 0 is never given to a row: it always names no object
PostPkInputs == 0..MaxPosts
CommentPkInputs == 0..MaxComments
Texts == {"t1", "t2"}

VARIABLES
    users,          \* User rows: pk -> [username]
    now,            \* the wall clock: timezone.now() / datetime.datetime.now()
    load_time,      \* timezone.now() as evaluated when views.py was imported
    categories,     \* Category rows: slug -> [is_published]
    posts,          \* Post rows: pk -> [author, category, is_published, pub_date]
    comments,       \* Comment rows: pk -> [post, author, text]
    next_post_pk,   \* the next AutoField value of Post
    next_comment_pk,\* the next AutoField value of Comment
    resp            \* the response of the last request

vars == <<users, now, load_time, categories, posts, comments,
          next_post_pk, next_comment_pk, resp>>
store == <<users, categories, posts, comments, next_post_pk, next_comment_pk>>

\* ---------------------------------------------------------------- helpers
Day(t) == t \div TicksPerDay

Restrict(f, S) == [x \in S |-> f[x]]

\* Count("comments"): the comments attached to post pk
comment_count(pk) ==
    Cardinality({c \in DOMAIN comments : comments[c].post = pk})

Annotate(pk) == [pk |-> pk, comment_count |-> comment_count(pk)]

\* order_by('-pub_date'): every order of S with pub_date non-increasing
\* (rows with equal pub_date come in an order the database chooses)
RECURSIVE OrderByPubDateDesc(_)
OrderByPubDateDesc(S) ==
    IF S = {} THEN {<< >>}
    ELSE LET latest == {x \in S : \A y \in S :
                            posts[x].pub_date >= posts[y].pub_date}
         IN  UNION { {<<x>> \o q : q \in OrderByPubDateDesc(S \ {x})} :
                     x \in latest }

AnnotateAll(q) == [i \in 1..Len(q) |-> Annotate(q[i])]

\* the ?page= parameters of a request: << >> when absent, <<n>> for the number n
NoPage == << >>
PageInputs == {NoPage} \cup {<<n>> : n \in 0..MaxPage}

\* A response: the view, request.user, the pk or the name the URL carries, the
\* outcome, and for a page of a listing its rows (items), page_obj.number
\* (number), paginator.count (count) and the 'page' parameter (page_number).
Response(op, user, pk, name, outcome) ==
    [op |-> op, user |-> user, pk |-> pk, name |-> name, outcome |-> outcome,
     items |-> << >>, number |-> 0, count |-> 0, page_number |-> NoPage]

PageResponse(op, user, name, outcome, pg, count, page_number) ==
    [op |-> op, user |-> user, pk |-> 0, name |-> name, outcome |-> outcome,
     items |-> pg.object_list, number |-> pg.number, count |-> count,
     page_number |-> page_number]

NoResponse == Response("none", Anonymous, 0, "", "none")

ItemPks(r) == {r.items[i].pk : i \in 1..Len(r.items)}

\* ------------------------------------------------------------- paginator
Min(a, b) == IF a < b THEN a ELSE b

\* Paginator.num_pages: ceil(max(1, count) / per_page)
num_pages(count, per_page) ==
    LET hits == IF count > 1 THEN count ELSE 1
    IN  (hits + per_page - 1) \div per_page

\* Paginator.validate_number: a number below 1 or above num_pages is an EmptyPage
EmptyPage(number, count, per_page) ==
    number < 1 \/ number > num_pages(count, per_page)

\* Paginator.page: object_list[bottom:top]
page(q, number, per_page) ==
    LET bottom == (number - 1) * per_page
        top == Min(bottom + per_page, Len(q))
    IN  [number |-> number, object_list |-> SubSeq(q, bottom + 1, top)]

\* Paginator.get_page(request.GET.get('page')): a missing parameter is not an
\* integer and gives page 1; an EmptyPage gives the last page.
\* The parameter is << >> when absent and <<n>> when it is the integer n.
get_page(q, page_number, per_page) ==
    IF page_number = << >>
    THEN page(q, 1, per_page)
    ELSE IF EmptyPage(page_number[1], Len(q), per_page)
         THEN page(q, num_pages(Len(q), per_page), per_page)
         ELSE page(q, page_number[1], per_page)

\* get_page_context(queryset, request)
get_page_context(q, page_number) == get_page(q, page_number, PAGINATOR_VALUE)

\* ------------------------------------------------------------- querysets
\* PostListView.queryset, a class attribute: its pub_date bound is the value
\* timezone.now() had when the class body ran
PostListQuerySet ==
    { pk \in DOMAIN posts :
        /\ posts[pk].is_published
        /\ categories[posts[pk].category].is_published
        /\ posts[pk].pub_date <= load_time }

\* post_queryset(category_is_published): pub_date__date__lt compares calendar days
post_queryset(category_is_published) ==
    { pk \in DOMAIN posts :
        /\ posts[pk].is_published
        /\ Day(posts[pk].pub_date) < Day(now)
        /\ categories[posts[pk].category].is_published = category_is_published }

\* category.posts.all().filter(category__slug=category_slug): the prefetched
\* queryset (post_queryset() restricted to the category) filtered once more
CategoryQuerySet(category_slug) ==
    { pk \in post_queryset(TRUE) : posts[pk].category = category_slug }

\* User.objects.filter(username=username)
UsersNamed(username) == { u \in Users : users[u].username = username }

\* the posts of profile_detail: author__username=username, and for anyone but
\* the logged-in user of that username the filter on is_published and pub_date
ProfileQuerySet(user, username) ==
    LET own == { pk \in DOMAIN posts :
                    users[posts[pk].author].username = username }
    IN  IF ~(user # Anonymous /\ users[user].username = username)
        THEN { pk \in own : posts[pk].is_published /\ posts[pk].pub_date <= now }
        ELSE own

\* ------------------------------------------------------------ list views
\* ListView.paginate_queryset with paginate_by: a page that is not valid is a 404
PostListResponse(user, q, page_number) ==
    LET number == IF page_number = << >> THEN 1 ELSE page_number[1]
    IN  IF EmptyPage(number, Len(q), paginate_by)
        THEN [Response("index", user, 0, "", "not_found")
                EXCEPT !.page_number = page_number]
        ELSE PageResponse("index", user, "", "ok",
                          page(q, number, paginate_by), Len(q), page_number)

\* category_posts: @login_required, then get_object_or_404 on the published category
CategoryOutcome(user, category_slug) ==
    IF user = Anonymous THEN "login_required"
    ELSE IF category_slug \notin DOMAIN categories
            \/ ~categories[category_slug].is_published THEN "not_found"
    ELSE "ok"

CategoryResponse(user, category_slug, q, page_number) ==
    IF CategoryOutcome(user, category_slug) # "ok"
    THEN [Response("category", user, 0, category_slug,
                   CategoryOutcome(user, category_slug))
            EXCEPT !.page_number = page_number]
    ELSE PageResponse("category", user, category_slug, "ok",
                      get_page_context(q, page_number), Len(q), page_number)

\* profile_detail: get_object_or_404(User, username=username), then the page
ProfileResponse(user, username, q, page_number) ==
    IF UsersNamed(username) = {}
    THEN [Response("profile", user, 0, username, "not_found")
            EXCEPT !.page_number = page_number]
    ELSE PageResponse("profile", user, username, "ok",
                      get_page(q, page_number, PAGINATOR_VALUE), Len(q),
                      page_number)

PostListView(user, page_number) ==
    /\ \E q \in OrderByPubDateDesc(PostListQuerySet) :
          resp' = PostListResponse(user, AnnotateAll(q), page_number)
    /\ UNCHANGED <<now, load_time, store>>

category_posts(user, category_slug, page_number) ==
    /\ \E q \in OrderByPubDateDesc(CategoryQuerySet(category_slug)) :
          resp' = CategoryResponse(user, category_slug, AnnotateAll(q), page_number)
    /\ UNCHANGED <<now, load_time, store>>

profile_detail(user, username, page_number) ==
    /\ \E q \in OrderByPubDateDesc(ProfileQuerySet(user, username)) :
          resp' = ProfileResponse(user, username, AnnotateAll(q), page_number)
    /\ UNCHANGED <<now, load_time, store>>

\* ----------------------------------------------------------- detail view
\* PostDetailView.dispatch without the test of the category
PostDetailOutcomeNoCategory(user, pk) ==
    IF pk \notin DOMAIN posts THEN "not_found"
    ELSE IF /\ posts[pk].author # user
            /\ \/ ~posts[pk].is_published
               \/ posts[pk].pub_date > now
         THEN "not_found"
         ELSE "ok"

\* PostDetailView.dispatch: get_object() or 404, then the visibility check
PostDetailOutcome(user, pk) ==
    IF pk \notin DOMAIN posts THEN "not_found"
    ELSE IF /\ posts[pk].author # user
            /\ \/ ~posts[pk].is_published
               \/ ~categories[posts[pk].category].is_published
               \/ posts[pk].pub_date > now
         THEN "not_found"
         ELSE "ok"

\* get_context_data: the post, with the number of post.comments it is shown with
PostDetailView(user, pk) ==
    /\ resp' = IF PostDetailOutcome(user, pk) = "ok"
               THEN [Response("detail", user, pk, "", "ok")
                       EXCEPT !.items = <<Annotate(pk)>>]
               ELSE Response("detail", user, pk, "", "not_found")
    /\ UNCHANGED <<now, load_time, store>>

\* ------------------------------------------------------------------ forms
\* the fields a ModelForm writes into its instance
PostFormFields == {"category", "is_published", "pub_date"}
CommentFormFields == {"text"}
UserFormFields == {"username"}

\* what a client can submit for a post and for a comment
PostData ==
    [author : Users, category : Slugs, is_published : BOOLEAN, pub_date : Times]
CommentData == [author : Users, post : PostPks, text : Texts]
UserData == [username : Usernames]

\* ModelForm.save: the submitted value of each field of the form, the
\* instance's own value of every other field
ApplyForm(instance, data, fields) ==
    [f \in DOMAIN instance |-> IF f \in fields THEN data[f] ELSE instance[f]]

\* Post() and Comment() before the form fills them
NewPost ==
    [author |-> NoUser, category |-> NoCategory, is_published |-> TRUE, pub_date |-> 0]
NewComment == [post |-> 0, author |-> NoUser, text |-> ""]

\* a form_valid that leaves the instance as the form made it
PostFormValidUnset(instance, user) == instance

\* form_valid of PostCreateView and of PostUpdateView:
\* form.instance.author = self.request.user
PostFormValid(instance, user) == [instance EXCEPT !.author = user]

\* CommentCreateView.form_valid: the author is the user, the post is the post of the URL
CommentFormValid(instance, user, pk) ==
    [instance EXCEPT !.author = user, !.post = pk]

\* ------------------------------------------------------------ edit_profile
\* edit_profile: @login_required, then form.is_valid(): a username that another
\* user holds is not valid (User.username is unique)
EditProfileOutcome(user, data) ==
    IF user = Anonymous THEN "login_required"
    ELSE IF \E other \in Users \ {user} : users[other].username = data.username
         THEN "form_invalid"
    ELSE "saved"

\* form.save() on instance=request.user, then the redirect to the profile of
\* the posted username; a form that is not valid is rendered again
edit_profile(user, data) ==
    /\ users' = IF EditProfileOutcome(user, data) = "saved"
                THEN [users EXCEPT ![user] =
                         ApplyForm(users[user], data, UserFormFields)]
                ELSE users
    /\ resp' = Response("edit_profile", user, 0, data.username,
                        EditProfileOutcome(user, data))
    /\ UNCHANGED <<now, load_time, categories, posts, comments,
                   next_post_pk, next_comment_pk>>

\* ------------------------------------------------------------- post views
\* PostCreateView: LoginRequiredMixin.dispatch runs first
PostCreateOutcome(user) ==
    IF user = Anonymous THEN "login_required" ELSE "created"

\* a request that stores no row is answered at any primary key; one that
\* stores a row is followed while the key is within MaxPosts
PostCreateView(user) ==
    /\ IF PostCreateOutcome(user) = "created"
       THEN \E data \in PostData :
              /\ next_post_pk <= MaxPosts
              /\ posts' = posts @@ (next_post_pk :>
                     PostFormValid(ApplyForm(NewPost, data, PostFormFields), user))
              /\ next_post_pk' = next_post_pk + 1
              /\ resp' = Response("post_create", user, next_post_pk, "",
                                  "created")
       ELSE /\ resp' = Response("post_create", user, 0, "",
                                PostCreateOutcome(user))
            /\ UNCHANGED <<posts, next_post_pk>>
    /\ UNCHANGED <<users, now, load_time, categories, comments, next_comment_pk>>

\* the test of PostUpdateView.dispatch and PostDeleteView.dispatch
PostNotOwned(post, user) == post.author # user

\* PostUpdateView.dispatch: get_object_or_404, the author test, and only then
\* LoginRequiredMixin.dispatch
PostUpdateOutcome(user, pk) ==
    IF pk \notin DOMAIN posts THEN "not_found"
    ELSE IF PostNotOwned(posts[pk], user) THEN "redirect_detail"
    ELSE IF user = Anonymous THEN "login_required"
    ELSE "updated"

PostUpdateView(user, pk) ==
    /\ IF PostUpdateOutcome(user, pk) = "updated"
       THEN \E data \in PostData :
              posts' = [posts EXCEPT ![pk] =
                  PostFormValid(ApplyForm(posts[pk], data, PostFormFields), user)]
       ELSE UNCHANGED posts
    /\ resp' = Response("post_update", user, pk, "",
                        PostUpdateOutcome(user, pk))
    /\ UNCHANGED <<users, now, load_time, categories, comments,
                   next_post_pk, next_comment_pk>>

\* PostDeleteView.dispatch: the same order of tests
PostDeleteOutcome(user, pk) ==
    IF pk \notin DOMAIN posts THEN "not_found"
    ELSE IF PostNotOwned(posts[pk], user) THEN "redirect_detail"
    ELSE IF user = Anonymous THEN "login_required"
    ELSE "deleted"

\* PostDeleteView: the post is deleted, and with it the comments under it
\* (a comment belongs to exactly one post)
PostDeleteView(user, pk) ==
    /\ IF PostDeleteOutcome(user, pk) = "deleted"
       THEN /\ posts' = Restrict(posts, DOMAIN posts \ {pk})
            /\ comments' = Restrict(comments,
                   {c \in DOMAIN comments : comments[c].post # pk})
       ELSE UNCHANGED <<posts, comments>>
    /\ resp' = Response("post_delete", user, pk, "",
                        PostDeleteOutcome(user, pk))
    /\ UNCHANGED <<users, now, load_time, categories, next_post_pk, next_comment_pk>>

\* ---------------------------------------------------------- comment views
\* CommentCreateView.dispatch: get_object_or_404(Post), then LoginRequiredMixin
CommentCreateOutcome(user, pk) ==
    IF pk \notin DOMAIN posts THEN "not_found"
    ELSE IF user = Anonymous THEN "login_required"
    ELSE "created"

\* as PostCreateView: only the request that stores a row is bounded, by
\* MaxComments
CommentCreateView(user, pk) ==
    /\ IF CommentCreateOutcome(user, pk) = "created"
       THEN \E data \in CommentData :
              /\ next_comment_pk <= MaxComments
              /\ comments' = comments @@ (next_comment_pk :>
                     CommentFormValid(
                         ApplyForm(NewComment, data, CommentFormFields), user, pk))
              /\ next_comment_pk' = next_comment_pk + 1
       ELSE UNCHANGED <<comments, next_comment_pk>>
    /\ resp' = Response("comment_create", user, pk, "",
                        CommentCreateOutcome(user, pk))
    /\ UNCHANGED <<users, now, load_time, categories, posts, next_post_pk>>

\* an author test that also lets the author of the parent post through
CommentNotOwnedNorPostOwned(comment, user) ==
    comment.author # user /\ posts[comment.post].author # user

\* the test of CommentUpdateView.dispatch and CommentDeletelView.dispatch
CommentNotOwned(comment, user) == comment.author # user

\* CommentUpdateView.dispatch: the login test, get_object() by comment_id, the
\* author test
CommentUpdateOutcome(user, comment_id) ==
    IF user = Anonymous THEN "login_required"
    ELSE IF comment_id \notin DOMAIN comments THEN "not_found"
    ELSE IF CommentNotOwned(comments[comment_id], user) THEN "redirect_detail"
    ELSE "updated"

\* CommentUpdateView has no form_valid of its own: the form alone is saved
CommentUpdateView(user, comment_id) ==
    /\ IF CommentUpdateOutcome(user, comment_id) = "updated"
       THEN \E data \in CommentData :
              comments' = [comments EXCEPT ![comment_id] =
                  ApplyForm(comments[comment_id], data, CommentFormFields)]
       ELSE UNCHANGED comments
    /\ resp' = Response("comment_update", user, comment_id, "",
                        CommentUpdateOutcome(user, comment_id))
    /\ UNCHANGED <<users, now, load_time, categories, posts,
                   next_post_pk, next_comment_pk>>

CommentDeleteOutcome(user, comment_id) ==
    IF user = Anonymous THEN "login_required"
    ELSE IF comment_id \notin DOMAIN comments THEN "not_found"
    ELSE IF CommentNotOwned(comments[comment_id], user) THEN "redirect_detail"
    ELSE "deleted"

CommentDeletelView(user, comment_id) ==
    /\ IF CommentDeleteOutcome(user, comment_id) = "deleted"
       THEN comments' = Restrict(comments, DOMAIN comments \ {comment_id})
       ELSE UNCHANGED comments
    /\ resp' = Response("comment_delete", user, comment_id, "",
                        CommentDeleteOutcome(user, comment_id))
    /\ UNCHANGED <<users, now, load_time, categories, posts,
                   next_post_pk, next_comment_pk>>

\* ------------------------------------------------------------------ Init
Init ==
    /\ users = [u \in Users |->
                  [username |-> IF u = "u1" THEN "alice" ELSE "bob"]]
    /\ now = 0
    /\ load_time = 0
    /\ categories = [s \in Slugs |-> [is_published |-> (s = "news")]]
    /\ posts = << >>
    /\ comments = << >>
    /\ next_post_pk = 1
    /\ next_comment_pk = 1
    /\ resp = NoResponse

\* the clock advances
Tick ==
    /\ now < MaxTime
    /\ now' = now + 1
    /\ UNCHANGED <<load_time, store, resp>>

\* every view of urlpatterns; the listings are asked for without ?page=
Next ==
    \/ Tick
    \/ \E user \in Viewers : PostListView(user, NoPage)
    \/ \E user \in Viewers, pk \in PostPkInputs : PostDetailView(user, pk)
    \/ \E user \in Viewers, slug \in SlugInputs :
          category_posts(user, slug, NoPage)
    \/ \E user \in Viewers, username \in Usernames :
          profile_detail(user, username, NoPage)
    \/ \E user \in Viewers, data \in UserData : edit_profile(user, data)
    \/ \E user \in Viewers : PostCreateView(user)
    \/ \E user \in Viewers, pk \in PostPkInputs : PostUpdateView(user, pk)
    \/ \E user \in Viewers, pk \in PostPkInputs : PostDeleteView(user, pk)
    \/ \E user \in Viewers, pk \in PostPkInputs : CommentCreateView(user, pk)
    \/ \E user \in Viewers, c \in CommentPkInputs : CommentUpdateView(user, c)
    \/ \E user \in Viewers, c \in CommentPkInputs : CommentDeletelView(user, c)

Spec == Init /\ [][Next]_vars

\* --------------------------------------------- posts and the detail view
\* The requests that make, change, delete and show one post, and the clock.
NextDetail ==
    \/ Tick
    \/ \E user \in Viewers, pk \in PostPkInputs : PostDetailView(user, pk)
    \/ \E user \in Viewers : PostCreateView(user)
    \/ \E user \in Viewers, pk \in PostPkInputs : PostUpdateView(user, pk)
    \/ \E user \in Viewers, pk \in PostPkInputs : PostDeleteView(user, pk)

SpecDetail == Init /\ [][NextDetail]_vars

\* ------------------------------------------------- pages of the listings
\* A database of 1..MaxCount posts of one author, all published in a published
\* category on distinct past days, and requests for every page of each listing.
InitPage ==
    /\ users = [u \in Users |->
                  [username |-> IF u = "u1" THEN "alice" ELSE "bob"]]
    /\ now = 0
    /\ load_time = 0
    /\ categories = [s \in Slugs |-> [is_published |-> (s = "news")]]
    /\ \E n \in 1..MaxCount :
          /\ posts = [pk \in 1..n |->
                 [author |-> "u1", category |-> "news",
                  is_published |-> TRUE, pub_date |-> 0 - pk * TicksPerDay]]
          /\ next_post_pk = n + 1
    /\ comments = << >>
    /\ next_comment_pk = 1
    /\ resp = NoResponse

NextPage ==
    \/ \E user \in Viewers, p \in PageInputs : PostListView(user, p)
    \/ \E user \in Viewers, slug \in SlugInputs, p \in PageInputs :
          category_posts(user, slug, p)
    \/ \E user \in Viewers, username \in Usernames, p \in PageInputs :
          profile_detail(user, username, p)

SpecPage == InitPage /\ [][NextPage]_vars

\* ================================================================ claims
\* The visibility rule as the specification states it.
Public(pk) ==
    /\ posts[pk].is_published
    /\ categories[posts[pk].category].is_published
    /\ posts[pk].pub_date <= now

VisibleTo(user, pk) ==
    pk \in DOMAIN posts /\ (user = posts[pk].author \/ Public(pk))

\* This step answers a request to the view op: resp' is that answer, and the
\* clock reads in both states the time of the request.
Asked(op) == resp'.op = op /\ now' = now

\* C1: for every post p and viewer v, at any time, the detail view returns p
\* iff v is p's author or p is published, in a published category and dated
\* not later than now; otherwise, and for an id of no post, it is NotFound.
C1_DetailIffVisible ==
    [][ Asked("detail") =>
          /\ store' = store
          /\ resp'.outcome =
                IF VisibleTo(resp'.user, resp'.pk) THEN "ok" ELSE "not_found"
          /\ resp'.outcome = "ok" => ItemPks(resp') = {resp'.pk}
      ]_vars

\* a detail request of a post that only its publication date hides was
\* answered NotFound to a viewer who is not its author, and its author can
\* see it
C1_Witness ==
    /\ resp.op = "detail" /\ resp.outcome = "not_found"
    /\ resp.pk \in DOMAIN posts
    /\ posts[resp.pk].author # resp.user
    /\ posts[resp.pk].is_published
    /\ categories[posts[resp.pk].category].is_published
    /\ posts[resp.pk].pub_date > now
    /\ PostDetailOutcome(posts[resp.pk].author, resp.pk) = "ok"

\* C2: the index lists a post iff it is published, its category is published
\* and its publication date is not later than the time of the request.
C2_IndexAtRequestTime ==
    [][ Asked("index") =>
          /\ resp'.outcome = "ok"
          /\ ItemPks(resp') = {pk \in DOMAIN posts : Public(pk)}
      ]_vars

\* C3: the listing of a published category, as a logged-in viewer gets it,
\* holds a post iff the post is of that category, published and dated not
\* later than the time of the request.
C3_CategoryFilter ==
    [][ ( /\ Asked("category")
          /\ resp'.user \in Users
          /\ resp'.name \in Slugs
          /\ categories[resp'.name].is_published )
        => /\ resp'.outcome = "ok"
           /\ ItemPks(resp') =
                {pk \in DOMAIN posts :
                    /\ posts[pk].category = resp'.name
                    /\ posts[pk].is_published
                    /\ posts[pk].pub_date <= now}
      ]_vars

\* C4: a profile lists every post of its user to that user, and to anyone
\* else the posts of that user that are published, in a published category
\* and dated not later than now.
C4_ProfileFilter ==
    [][ (Asked("profile") /\ \E u \in Users : users[u].username = resp'.name)
        => /\ resp'.outcome = "ok"
           /\ ItemPks(resp') =
                {pk \in DOMAIN posts :
                    /\ users[posts[pk].author].username = resp'.name
                    /\ (resp'.user = posts[pk].author \/ Public(pk))}
      ]_vars

\* C5: an update or a delete of a post or of a comment asked by anyone but
\* the author of that post or comment is denied and changes no row.
C5_NonAuthorDenied ==
    [][ /\ ( /\ resp'.op \in {"post_update", "post_delete"}
             /\ resp'.pk \in DOMAIN posts
             /\ posts[resp'.pk].author # resp'.user )
           => /\ resp'.outcome \in {"redirect_detail", "login_required"}
              /\ store' = store
        /\ ( /\ resp'.op \in {"comment_update", "comment_delete"}
             /\ resp'.pk \in DOMAIN comments
             /\ comments[resp'.pk].author # resp'.user )
           => /\ resp'.outcome \in {"redirect_detail", "login_required"}
              /\ store' = store
      ]_vars

\* the author of a post asked to update a comment of another user under it,
\* and was redirected
C5_Witness ==
    /\ resp.op = "comment_update" /\ resp.outcome = "redirect_detail"
    /\ resp.pk \in DOMAIN comments
    /\ comments[resp.pk].author # resp.user
    /\ posts[comments[resp.pk].post].author = resp.user

\* C6: on update and delete of posts and comments an unauthenticated actor
\* always gets "authentication required", never the soft redirect, and an
\* authenticated actor who is not the author always gets the soft redirect.
C6_DenialKind ==
    [][ /\ ( /\ resp'.op \in {"post_update", "post_delete"}
             /\ resp'.pk \in DOMAIN posts
             /\ posts[resp'.pk].author # resp'.user )
           => resp'.outcome = IF resp'.user = Anonymous
                              THEN "login_required" ELSE "redirect_detail"
        /\ ( /\ resp'.op \in {"comment_update", "comment_delete"}
             /\ resp'.pk \in DOMAIN comments
             /\ comments[resp'.pk].author # resp'.user )
           => resp'.outcome = IF resp'.user = Anonymous
                              THEN "login_required" ELSE "redirect_detail"
      ]_vars

\* the page that closes a listing of count rows, ten to a page
LastPage(count) == (count + 9) \div 10

\* the rows a listing request chooses among, before they are cut into pages
Qualifying(r) ==
    IF r.op = "index" THEN PostListQuerySet
    ELSE IF r.op = "category" THEN CategoryQuerySet(r.name)
    ELSE ProfileQuerySet(r.user, r.name)

\* C7: in the index, a category listing (as a logged-in viewer gets it) and a
\* profile listing with at least one qualifying post, a request for page 0
\* gets the first page, a request for a page past the last gets the last
\* page, and neither fails.
C7_PageClamp ==
    ( /\ resp.op \in {"index", "category", "profile"}
      /\ resp.op = "category" => resp.user # Anonymous
      /\ resp.page_number # NoPage
      /\ Qualifying(resp) # {} )
    => /\ resp.page_number[1] = 0 =>
            resp.outcome = "ok" /\ resp.number = 1
       /\ resp.page_number[1] > LastPage(Cardinality(Qualifying(resp))) =>
            /\ resp.outcome = "ok"
            /\ resp.number = LastPage(Cardinality(Qualifying(resp)))

\* what the view op answers user for an id that names no post
MissingOutcome(op, user) ==
    IF op = "detail" THEN PostDetailOutcome(user, 0)
    ELSE IF op = "post_update" THEN PostUpdateOutcome(user, 0)
    ELSE IF op = "post_delete" THEN PostDeleteOutcome(user, 0)
    ELSE CommentCreateOutcome(user, 0)

\* C8: for a post hidden from a viewer, the detail view, the post update,
\* the post delete and the comment creation answer that viewer as they
\* answer for an id that names no post, and change no row.
C8_HiddenAsMissing ==
    [][ ( /\ now' = now
          /\ resp'.op \in {"detail", "post_update", "post_delete", "comment_create"}
          /\ resp'.pk \in DOMAIN posts
          /\ ~VisibleTo(resp'.user, resp'.pk) )
        => /\ resp'.outcome = MissingOutcome(resp'.op, resp'.user)
           /\ store' = store
      ]_vars

\* C9: the category listing answers every viewer, logged in or not: it
\* succeeds when the slug names a published category and is NotFound when
\* the slug is unknown or the category unpublished, and nothing else.
C9_CategoryForEveryViewer ==
    resp.op = "category" =>
        resp.outcome =
            IF resp.name \in DOMAIN categories /\ categories[resp.name].is_published
            THEN "ok" ELSE "not_found"

\* C10: a row is created only by an authenticated actor, with that actor as
\* its author whatever was submitted, and no request changes the author of
\* a post or the author or the post of a comment.
C10_AuthorIsCreator ==
    [][ /\ \A pk \in DOMAIN posts' :
             IF pk \in DOMAIN posts
             THEN posts'[pk].author = posts[pk].author
             ELSE /\ resp'.op = "post_create"
                  /\ resp'.user \in Users
                  /\ posts'[pk].author = resp'.user
        /\ \A c \in DOMAIN comments' :
             IF c \in DOMAIN comments
             THEN /\ comments'[c].author = comments[c].author
                  /\ comments'[c].post = comments[c].post
             ELSE /\ resp'.op = "comment_create"
                  /\ resp'.user \in Users
                  /\ comments'[c].author = resp'.user
                  /\ comments'[c].post = resp'.pk
      ]_vars

\* a comment was updated by the one who wrote it, under a post of another user
C10_Witness ==
    /\ resp.op = "comment_update" /\ resp.outcome = "updated"
    /\ resp.pk \in DOMAIN comments
    /\ comments[resp.pk].author = resp.user
    /\ comments[resp.pk].post \in DOMAIN posts
    /\ posts[comments[resp.pk].post].author \in Users \ {resp.user}
====
